---- MODULE Spec2Model ----
(***************************************************************************)
(* Power-of-two k-d tree (PkdTree, src/pkdt/src/lib.rs) and affordance     *)
(* tree (AffordanceTree, src/pkdt/src/affordance.rs).                      *)
(*                                                                         *)
(* f32 values are modelled as integers with three special values (+inf,    *)
(* -inf, NaN) and IEEE rules for them.  Input coordinates are multiples of *)
(* 4, so the midpoint (a + b) / 2.0 of two of them is an even integer, and *)
(* query coordinates are all integers: they fall on, beside and between    *)
(* the inputs and the split planes.  Every operation of the code is exact  *)
(* on the values that occur: rounding and overflow of finite f32           *)
(* arithmetic are outside the model.                                       *)
(*                                                                         *)
(* Arrays that the code indexes from 0 (tests, points, aff_starts) are     *)
(* functions on 0..len-1; point values and working slices are sequences,   *)
(* coordinate d of the code being element d + 1.                           *)
(***************************************************************************)
EXTENDS Integers, Sequences, FiniteSets, TLC

(***************************************************************************)
(* Bounds of the model.                                                    *)
(***************************************************************************)
\* largest number of input points
MaxN == 4
\* number of distinct values an input coordinate takes: 0, 4, .., 4*(NumCoords-1)
NumCoords == 2
\* largest dimension D
MaxD == 2

(***************************************************************************)
(* f32                                                                     *)
(***************************************************************************)
PInf == 1000000
NInf == 0 - PInf
NaN == 3000000

IsNaN(x) == x = NaN
IsInf(x) == x = PInf \/ x = NInf

\* a < b, a <= b, a > b, a == b, a != b on f32: every comparison with NaN is
\* false except !=
FLt(a, b) == ~IsNaN(a) /\ ~IsNaN(b) /\ a < b
FLe(a, b) == ~IsNaN(a) /\ ~IsNaN(b) /\ a <= b
FGt(a, b) == FLt(b, a)
FEq(a, b) == ~IsNaN(a) /\ ~IsNaN(b) /\ a = b
FNe(a, b) == ~FEq(a, b)

FNeg(a) == IF IsNaN(a) THEN NaN ELSE 0 - a

FAdd(a, b) ==
    IF IsNaN(a) \/ IsNaN(b) THEN NaN
    ELSE IF IsInf(a) THEN (IF IsInf(b) /\ b # a THEN NaN ELSE a)
    ELSE IF IsInf(b) THEN b
    ELSE a + b

FSub(a, b) == FAdd(a, FNeg(b))

FAbs(a) == IF IsNaN(a) THEN NaN ELSE IF a < 0 THEN 0 - a ELSE a

\* x.powi(2), x * x
FSq(a) == IF IsNaN(a) THEN NaN ELSE IF IsInf(a) THEN PInf ELSE a * a

\* x / 2.0 (a finite x is even wherever the code divides)
FHalf(a) == IF IsNaN(a) \/ IsInf(a) THEN a ELSE a \div 2

(***************************************************************************)
(* Inputs                                                                  *)
(***************************************************************************)
Dims == 1..MaxD
Coords == {4 * k : k \in 0..(NumCoords - 1)}
\* query coordinates: every integer from one below the least input coordinate
\* to one above the greatest
NeedleCoords == (0 - 1)..(4 * (NumCoords - 1) + 1)

PointsOf(S, dm) == [1..dm -> S]
SeqsOfLen(S, n) == [1..n -> S]
Inputs(dm) == UNION {SeqsOfLen(PointsOf(Coords, dm), n) : n \in 1..MaxN}

RECURSIVE next_power_of_two(_)
next_power_of_two(n) == IF n <= 1 THEN 1 ELSE 2 * next_power_of_two((n + 1) \div 2)

RECURSIVE ilog2(_)
ilog2(n) == IF n <= 1 THEN 0 ELSE 1 + ilog2(n \div 2)

is_power_of_two(n) == n >= 1 /\ next_power_of_two(n) = n

Remove(s, k) == SubSeq(s, 1, k - 1) \o SubSeq(s, k + 1, Len(s))

VARIABLES
    D,          \* const generic D: the dimension
    input,      \* the caller's point slice
    rsq_range,  \* the (rsq_min, rsq_max) handed to AffordanceTree::new
    kdt,        \* the PkdTree: [built, tests, points]
    aft,        \* the AffordanceTree: [built, tests, rsq_range, aff_starts, points]
    call        \* the call in progress or just returned, with its locals

vars == <<D, input, rsq_range, kdt, aft, call>>

(***************************************************************************)
(* PkdTree::new                                                            *)
(***************************************************************************)
\* points.sort_unstable_by(|a, b| a[d].partial_cmp(&b[d]).unwrap()): every
\* arrangement of s that is non-decreasing in coordinate d (the order of
\* equal keys is unspecified)
RECURSIVE sort_unstable_by(_, _)
sort_unstable_by(s, d) ==
    IF Len(s) = 0 THEN {<<>>}
    ELSE LET mins == {k \in 1..Len(s) :
                        \A j \in 1..Len(s) : ~FLt(s[j][d + 1], s[k][d + 1])}
         IN  UNION {{<<s[k]>> \o r : r \in sort_unstable_by(Remove(s, k), d)} :
                    k \in mins}

\* the split taken from the first point of the sorted slice
Median_first(p, d) == p[1][d + 1]

\* the split taken from the upper middle point alone
Median_upper(p, d) == p[(Len(p) \div 2) + 1][d + 1]

\* (points[len / 2 - 1][d] + points[len / 2][d]) / 2.0
Median(p, d) ==
    LET h == Len(p) \div 2
    IN  FHalf(FAdd(p[h][d + 1], p[h + 1][d + 1]))

\* the set of outcomes [points, tests] of the recursive sort of `points`
\* writing into `tests`
RECURSIVE recur_sort_points(_, _, _, _)
recur_sort_points(points, tests, d, i) ==
    IF Len(points) > 1
    THEN UNION {
           LET h == Len(p) \div 2
               t1 == [tests EXCEPT ![i] = Median(p, d)]
               next_dim == (d + 1) % D
           IN  UNION {
                 {[points |-> l.points \o r.points, tests |-> r.tests] :
                    r \in recur_sort_points(SubSeq(p, h + 1, Len(p)), l.tests,
                                            next_dim, 2 * i + 2)} :
                 l \in recur_sort_points(SubSeq(p, 1, h), t1, next_dim, 2 * i + 1)}
           : p \in sort_unstable_by(points, d)}
    ELSE {[points |-> points, tests |-> tests]}

\* the padding made of -inf
Padded_neg(pts, n2) ==
    [k \in 1..n2 |-> IF k <= Len(pts) THEN pts[k] ELSE [c \in 1..D |-> NInf]]

\* vec![[f32::INFINITY; D]; n2] with the input copied over its front
Padded(pts, n2) ==
    [k \in 1..n2 |-> IF k <= Len(pts) THEN pts[k] ELSE [c \in 1..D |-> PInf]]

\* the point-major layout, my_points[i * D + d]
StoreIdx_aos(d, n2, i) == i * D + d

\* my_points[d * n2 + i] = value
StoreIdx(d, n2, i) == d * n2 + i

\* the loop over new_points.iter().enumerate() and the coordinates of each
\* point, k counting the (point, coordinate) pairs already stored
RECURSIVE Transpose(_, _, _, _)
Transpose(my_points, new_points, n2, k) ==
    IF k = n2 * D THEN my_points
    ELSE LET i == k \div D
             d == k % D
         IN  Transpose([my_points EXCEPT ![StoreIdx(d, n2, i)] = new_points[i + 1][d + 1]],
                       new_points, n2, k + 1)

PkdTreeNew(pts) ==
    LET n2 == next_power_of_two(Len(pts))
        tests0 == [k \in 0..(n2 - 2) |-> PInf]
        nan0 == [k \in 0..(n2 * D - 1) |-> NaN]
    IN  {[built |-> TRUE, tests |-> r.tests,
          points |-> Transpose(nan0, r.points, n2, 0)] :
            r \in recur_sort_points(Padded(pts, n2), tests0, 0, 0)}

TestsLen(t) == Cardinality(DOMAIN t.tests)
N2(t) == TestsLen(t) + 1

\* PkdTree::get_point
get_point(t, id) == [c \in 1..D |-> t.points[(c - 1) * N2(t) + id]]

\* fn dist: the code holds sqrt(sum); the model holds the sum itself, and
\* squares whatever the code compares with a dist (sqrt is increasing, so
\* every comparison of the code keeps its outcome)
RECURSIVE SumSq(_, _, _)
SumSq(a, b, c) ==
    IF c = 0 THEN 0 ELSE FAdd(SumSq(a, b, c - 1), FSq(FSub(a[c], b[c])))

dist(a, b) == SumSq(a, b, D)

(***************************************************************************)
(* PkdTree::query1                                                         *)
(***************************************************************************)
\* the comparison with <= for <: a needle on the plane goes left
Add1_le(tests, needle, test_idx, i) ==
    IF FLe(needle[(i % D) + 1], tests[test_idx]) THEN 1 ELSE 2

\* the children taken for 2 * idx and 2 * idx + 1
Add1_zero(tests, needle, test_idx, i) ==
    IF FLt(needle[(i % D) + 1], tests[test_idx]) THEN 0 ELSE 1

\* if needle[i % D] < tests[test_idx] { 1 } else { 2 }
Add1(tests, needle, test_idx, i) ==
    IF FLt(needle[(i % D) + 1], tests[test_idx]) THEN 1 ELSE 2

\* for i in lo..hi { test_idx <<= 1; test_idx += add }
RECURSIVE Descend(_, _, _, _, _)
Descend(tests, needle, test_idx, i, hi) ==
    IF i >= hi THEN test_idx
    ELSE Descend(tests, needle, 2 * test_idx + Add1(tests, needle, test_idx, i),
                 i + 1, hi)

query1(t, needle) ==
    Descend(t.tests, needle, 0, 0, ilog2(N2(t))) - TestsLen(t)

\* the indices of self.tests[test_idx] read by the loop of query1, one per
\* comparison, in order; a read outside tests ends the call
RECURSIVE DescendReads(_, _, _, _, _)
DescendReads(tests, needle, test_idx, i, hi) ==
    IF i >= hi THEN <<>>
    ELSE IF test_idx \notin DOMAIN tests THEN <<test_idx>>
    ELSE <<test_idx>> \o
         DescendReads(tests, needle, 2 * test_idx + Add1(tests, needle, test_idx, i),
                      i + 1, hi)

(***************************************************************************)
(* PkdTree::query, on Simd<_, L>: vectors are functions on the lanes       *)
(***************************************************************************)
\* number of lanes L
MaxL == 2
Lanes == 1..MaxL

Splat(v) == [l \in Lanes |-> v]
gather_ptr(arr, idxs) == [l \in Lanes |-> arr[idxs[l]]]
simd_lt(a, b) == [l \in Lanes |-> FLt(a[l], b[l])]
select(mask, a, b) == [l \in Lanes |-> IF mask[l] THEN a[l] ELSE b[l]]
VShl1(a) == [l \in Lanes |-> 2 * a[l]]
VAdd(a, b) == [l \in Lanes |-> a[l] + b[l]]
VSub(a, b) == [l \in Lanes |-> a[l] - b[l]]

simd_le(a, b) == [l \in Lanes |-> FLe(a[l], b[l])]

\* the lane-wise comparison with simd_le for simd_lt
AdvanceTests_le(tests, needles, test_idxs, i) ==
    LET relevant_tests == gather_ptr(tests, test_idxs)
        needle_values == needles[(i % D) + 1]
        cmp_results == simd_le(needle_values, relevant_tests)
    IN  VAdd(VShl1(test_idxs), select(cmp_results, Splat(1), Splat(2)))

\* one round of "Advance the tests forward"; needles[d + 1] is the vector of
\* coordinate d of the L needles
AdvanceTests(tests, needles, test_idxs, i) ==
    LET relevant_tests == gather_ptr(tests, test_idxs)
        needle_values == needles[(i % D) + 1]
        cmp_results == simd_lt(needle_values, relevant_tests)
    IN  VAdd(VShl1(test_idxs), select(cmp_results, Splat(1), Splat(2)))

RECURSIVE DescendSimd(_, _, _, _, _)
DescendSimd(tests, needles, test_idxs, i, hi) ==
    IF i >= hi THEN test_idxs
    ELSE DescendSimd(tests, needles, AdvanceTests(tests, needles, test_idxs, i),
                     i + 1, hi)

query(t, needles) ==
    VSub(DescendSimd(t.tests, needles, Splat(0), 0, ilog2(N2(t))),
         Splat(TestsLen(t)))

\* lane l of a batch, as one point
LaneOf(needles, l) == [c \in 1..D |-> needles[c][l]]

(***************************************************************************)
(* PkdTree::query_bail                                                     *)
(***************************************************************************)
\* x << k
Shl(x, k) == x * (2 ^ k)

\* the two loops `for d in 0..D` that gather coordinate d of the points at
\* point_idxs and add the squared differences: the sums after c coordinates
RECURSIVE BailDists(_, _, _, _)
BailDists(t, needles, point_idxs, c) ==
    IF c = 0 THEN Splat(0)
    ELSE LET prev == BailDists(t, needles, point_idxs, c - 1)
             point_values == gather_ptr(t.points,
                                        VAdd(Splat((c - 1) * N2(t)), point_idxs))
             diffs == [l \in Lanes |-> FSub(needles[c][l], point_values[l])]
         IN  [l \in Lanes |-> FAdd(prev[l], FSq(diffs[l]))]

\* a later point replaces the best one when it is as near
WasDistsLower_le(dists, best_dists) == simd_le(dists, best_dists)

\* let was_dists_lower = dists.simd_lt(best_dists)
WasDistsLower(dists, best_dists) == simd_lt(dists, best_dists)

\* for _ in 1..1 << bail_height { .. }: best_idxs after rounds k..n-1, from
\* the vectors b = [point_idxs, best_dists, best_idxs]
RECURSIVE BailScan(_, _, _, _, _)
BailScan(t, needles, b, k, n) ==
    IF k >= n THEN b.best_idxs
    ELSE LET point_idxs == VAdd(b.point_idxs, Splat(1))
             dists == BailDists(t, needles, point_idxs, D)
             was_dists_lower == WasDistsLower(dists, b.best_dists)
         IN  BailScan(t, needles,
                      [point_idxs |-> point_idxs,
                       best_dists |-> select(was_dists_lower, dists, b.best_dists),
                       best_idxs |-> select(was_dists_lower, point_idxs, b.best_idxs)],
                      k + 1, n)

\* [panicked, ret]: whether the assertion on bail_height fails, and the
\* best_idxs returned otherwise
query_bail(t, needles, bail_height) ==
    LET n2 == N2(t)
        test_idxs == DescendSimd(t.tests, needles, Splat(0), 0, ilog2(n2) - bail_height)
        point_idxs == VSub(VAdd([l \in Lanes |-> Shl(test_idxs[l], bail_height)],
                                Splat(Shl(1, bail_height) - 1)),
                           Splat(TestsLen(t)))
        b0 == [point_idxs |-> point_idxs,
               best_dists |-> BailDists(t, needles, point_idxs, D),
               best_idxs |-> point_idxs]
    IN  IF ~(bail_height <= ilog2(n2))
        THEN [panicked |-> TRUE, ret |-> Splat(0)]
        ELSE [panicked |-> FALSE,
              ret |-> BailScan(t, needles, b0, 1, Shl(1, bail_height))]

(***************************************************************************)
(* PkdTree::query1_exact: one action per iteration of `while test_idx != 0`*)
(***************************************************************************)
\* the state before the loop; reads and new_guess record, for the iteration
\* just run, the indices of tests it read and the leaf its re-descent ended on
ExactEntry(t, needle) ==
    LET guess == query1(t, needle)
    IN  [fn |-> "query1_exact", needle |-> needle, pc |-> "loop",
         guess |-> guess, test_idx |-> guess + TestsLen(t),
         distance |-> dist(get_point(t, guess), needle), i |-> 0,
         panicked |-> FALSE, reads |-> <<>>, new_guess |-> guess]

\* let d = i % D
PlaneAxis(i) == i % D

\* (needle[d] - self.tests[test_idx]).abs() < distance
NearPlane(t, needle, test_idx, i, distance) ==
    FLt(FSq(FAbs(FSub(needle[PlaneAxis(i) + 1], t.tests[test_idx]))), distance)

\* the child the climb came from
Sibling_same(test_idx, last_test_idx) == 2 * test_idx + 2 - (last_test_idx % 2)

\* 2 * test_idx + 1 + last_test_idx % 2
Sibling(test_idx, last_test_idx) == 2 * test_idx + 1 + (last_test_idx % 2)

\* the comparison turned round
Closer_gt(new_distance, distance) == FGt(new_distance, distance)

\* a leaf as near as the guess replaces it
Closer_le(new_distance, distance) == FLe(new_distance, distance)

\* if new_distance < distance
Closer(new_distance, distance) == FLt(new_distance, distance)

\* the body of the loop, from the locals c; a failed assertion, an index out
\* of bounds or an underflow of log2 n2 - i ends the call with panicked
ExactBody(t, c) ==
    LET n2 == N2(t)
        last_test_idx == c.test_idx
        test_idx == (c.test_idx + 1) \div 2 - 1
        parent_ok == 2 * test_idx + 1 = last_test_idx \/ 2 * test_idx + 2 = last_test_idx
        new_start == Sibling(test_idx, last_test_idx)
        lo == ilog2(n2) - c.i
        reads == DescendReads(t.tests, c.needle, new_start, lo, ilog2(n2))
        reads_ok == \A k \in DOMAIN reads : reads[k] \in DOMAIN t.tests
        new_test_idx == Descend(t.tests, c.needle, new_start, lo, ilog2(n2))
        new_guess == new_test_idx - TestsLen(t)
        new_distance == dist(get_point(t, new_guess), c.needle)
        Panic(r) == [c EXCEPT !.panicked = TRUE, !.pc = "done", !.reads = r]
    IN  IF ~parent_ok THEN Panic(<<>>)
        ELSE IF test_idx \notin DOMAIN t.tests THEN Panic(<<test_idx>>)
        ELSE IF NearPlane(t, c.needle, test_idx, c.i, c.distance)
        THEN IF new_start = last_test_idx \/ lo < 0 THEN Panic(<<test_idx>>)
             ELSE IF ~reads_ok THEN Panic(<<test_idx>> \o reads)
             ELSE IF new_guess \notin 0..(n2 - 1)
             THEN [Panic(<<test_idx>> \o reads) EXCEPT !.new_guess = new_guess]
             ELSE IF Closer(new_distance, c.distance)
             THEN [c EXCEPT !.distance = new_distance, !.guess = new_guess,
                            !.test_idx = new_test_idx, !.i = 0,
                            !.reads = <<test_idx>> \o reads, !.new_guess = new_guess]
             ELSE [c EXCEPT !.test_idx = test_idx, !.i = c.i + 1,
                            !.reads = <<test_idx>> \o reads, !.new_guess = new_guess]
        ELSE [c EXCEPT !.test_idx = test_idx, !.i = c.i + 1, !.reads = <<test_idx>>]

Needles == PointsOf(NeedleCoords, D)
NeedleBatches == [1..D -> [Lanes -> NeedleCoords]]

(***************************************************************************)
(* Geometry of the affordance tree                                         *)
(***************************************************************************)
\* crate::distsq: the sum of the squared coordinate differences
distsq(a, b) == SumSq(a, b, D)

\* fn clamp
clamp(x, min, max) ==
    IF FLt(x, min) THEN min ELSE IF FGt(x, max) THEN max ELSE x

\* Volume::closest_point
closest_point(volume, q) ==
    [c \in 1..D |-> clamp(q[c], volume.lower[c], volume.upper[c])]

\* Volume::distsq_to
distsq_to(volume, point) == distsq(closest_point(volume, point), point)

\* Volume::furthest_distsq_to: the loop over d, c coordinates done
RECURSIVE FurthestSum(_, _, _)
FurthestSum(volume, point, c) ==
    IF c = 0 THEN 0
    ELSE LET lo_diff == FAbs(FSub(volume.lower[c], point[c]))
             hi_diff == FAbs(FSub(volume.upper[c], point[c]))
         IN  FAdd(FurthestSum(volume, point, c - 1),
                  FSq(IF FLt(lo_diff, hi_diff) THEN hi_diff ELSE lo_diff))

furthest_distsq_to(volume, point) == FurthestSum(volume, point, D)

\* the upper volume left with the lower bound of its parent
split_unbounded(volume, test, dim) ==
    <<[volume EXCEPT !.upper[dim + 1] = test], volume>>

\* Volume::split: (self with upper[dim] = test, rhs with lower[dim] = test)
split(volume, test, dim) ==
    <<[volume EXCEPT !.upper[dim + 1] = test],
      [volume EXCEPT !.lower[dim + 1] = test]>>

\* [f32; D] != [f32; D]
PointNe(a, b) == \E c \in 1..D : FNe(a[c], b[c])

(***************************************************************************)
(* AffordanceTree::new                                                     *)
(***************************************************************************)
\* crate::median_partition: the slice rearranged so that no point of its
\* lower half is above a point of its upper half in coordinate d, and the
\* split value between the two.  Each half is partitioned again by the
\* caller down to single points, so its inner order is immaterial and an
\* ordered arrangement stands for every arrangement with the same halves.
median_partition(points, d) ==
    {[points |-> p, test |-> Median(p, d)] : p \in sort_unstable_by(points, d)}

\* the retain of a child of an internal node
KeepChild(vol, pt, rsq) ==
    /\ FLt(rsq[1], furthest_distsq_to(vol, pt))
    /\ FLt(distsq_to(vol, pt), rsq[2])

\* the retain of a leaf
KeepLeaf(volume, cell_center, pt, rsq) ==
    LET closest == closest_point(volume, pt)
        center_dist == distsq(cell_center, closest)
        closest_dist == distsq(pt, closest)
    IN  /\ PointNe(cell_center, pt)
        /\ FLt(closest_dist, rsq[2])
        /\ FLt(closest_dist, furthest_distsq_to(volume, cell_center))
        /\ FLt(rsq[1], center_dist)

\* the swap left out: the center stays at the back
SwapEnds_none(s) == s

\* possible_collisions.swap(0, l - 1)
SwapEnds(s) ==
    [k \in 1..Len(s) |-> IF k = 1 THEN s[Len(s)] ELSE IF k = Len(s) THEN s[1] ELSE s[k]]

\* The set of outcomes of build_tree on the slice `points`; acc carries what
\* the code reaches through &mut: tests, ranges, affordances, and the slices
\* already laid out (sorted).
RECURSIVE build_tree(_, _, _, _, _, _, _)
build_tree(points, acc, d, i, possible_collisions, volume, rsq) ==
    IF Len(points) <= 1
    THEN LET cell_center == points[1]
             kept == SelectSeq(possible_collisions,
                               LAMBDA pt : KeepLeaf(volume, cell_center, pt, rsq))
             list == SwapEnds(Append(kept, cell_center))
         IN  {[acc EXCEPT !.ranges = Append(@, Len(acc.affordances)),
                          !.affordances = @ \o list,
                          !.sorted = @ \o points]}
    ELSE UNION {
           LET test == mp.test
               next_dim == (d + 1) % D
               h == Len(points) \div 2
               lhs == SubSeq(mp.points, 1, h)
               rhs == SubSeq(mp.points, h + 1, Len(points))
               vols == split(volume, test, d)
               low_vol == vols[1]
               hi_vol == vols[2]
               lo_afford == SelectSeq(possible_collisions,
                                      LAMBDA pt : KeepChild(low_vol, pt, rsq))
               hi_afford == SelectSeq(possible_collisions,
                                      LAMBDA pt : KeepChild(hi_vol, pt, rsq))
               acc1 == [acc EXCEPT !.tests[i] = test]
           IN  UNION {build_tree(rhs, a, next_dim, 2 * i + 2, hi_afford, hi_vol, rsq) :
                        a \in build_tree(lhs, acc1, next_dim, 2 * i + 1,
                                         lo_afford, low_vol, rsq)}
           : mp \in median_partition(points, d)}

\* Vec / Box<[T]> as a function on 0..len-1
Boxed(s) == [k \in 0..(Len(s) - 1) |-> s[k + 1]]

\* the constructor without the closing ranges.push(points.len())
AffordanceTreeNew_nopush(pts, rsq) ==
    LET n2 == next_power_of_two(Len(pts))
        new_points == Padded(pts, n2)
        acc0 == [tests |-> [k \in 0..(n2 - 2) |-> PInf], ranges |-> <<>>,
                 affordances |-> <<>>, sorted |-> <<>>]
        root == [lower |-> [c \in 1..D |-> NInf], upper |-> [c \in 1..D |-> PInf]]
    IN  {[built |-> TRUE, tests |-> r.tests, rsq_range |-> rsq,
          aff_starts |-> Boxed(r.ranges),
          points |-> Boxed(r.affordances),
          new_points |-> r.sorted] :
            r \in build_tree(new_points, acc0, 0, 0, new_points, root, rsq)}

AffordanceTreeNew(pts, rsq) ==
    LET n2 == next_power_of_two(Len(pts))
        new_points == Padded(pts, n2)
        acc0 == [tests |-> [k \in 0..(n2 - 2) |-> PInf], ranges |-> <<>>,
                 affordances |-> <<>>, sorted |-> <<>>]
        root == [lower |-> [c \in 1..D |-> NInf], upper |-> [c \in 1..D |-> PInf]]
    IN  {[built |-> TRUE, tests |-> r.tests, rsq_range |-> rsq,
          aff_starts |-> Boxed(Append(r.ranges, Len(r.affordances))),
          points |-> Boxed(r.affordances),
          new_points |-> r.sorted] :
            r \in build_tree(new_points, acc0, 0, 0, new_points, root, rsq)}

(***************************************************************************)
(* AffordanceTree::collides                                                *)
(***************************************************************************)
\* the assertions with < for <=
RangeOk_strict(t, r_squared) ==
    /\ FLt(t.rsq_range[1], r_squared)
    /\ FLt(r_squared, t.rsq_range[2])

\* the two assertions on r_squared
RangeOk(t, r_squared) ==
    /\ FLe(t.rsq_range[1], r_squared)
    /\ FLe(r_squared, t.rsq_range[2])

\* if center[i % D] < tests[test_idx] { 1 } else { 2 }
AffAdd(tests, center, test_idx, i) ==
    IF FLt(center[(i % D) + 1], tests[test_idx]) THEN 1 ELSE 2

\* the descent of collides; -1 stands for an index outside tests
RECURSIVE AffDescend(_, _, _, _, _)
AffDescend(tests, center, test_idx, i, hi) ==
    IF i >= hi THEN test_idx
    ELSE IF test_idx \notin DOMAIN tests THEN 0 - 1
    ELSE AffDescend(tests, center, 2 * test_idx + AffAdd(tests, center, test_idx, i),
                    i + 1, hi)

\* the indices of self.tests[test_idx] read by the loop of collides, one per
\* comparison, in order
RECURSIVE AffDescendReads(_, _, _, _, _)
AffDescendReads(tests, center, test_idx, i, hi) ==
    IF i >= hi THEN <<>>
    ELSE IF test_idx \notin DOMAIN tests THEN <<test_idx>>
    ELSE <<test_idx>> \o
         AffDescendReads(tests, center,
                         2 * test_idx + AffAdd(tests, center, test_idx, i), i + 1, hi)

\* the argument taken for a radius and squared once more
Hit_twice(pt, center, r_squared) == FLe(distsq(pt, center), FSq(r_squared))

\* |pt| distsq(*pt, *center) <= r_squared
Hit(pt, center, r_squared) == FLe(distsq(pt, center), r_squared)

\* .iter().any(..) on points[lo..hi]: the number of points the closure is
\* called on, which is up to and including the first hit
Evaluated(t, center, r_squared, lo, hi) ==
    LET hits == {k \in lo..(hi - 1) : Hit(t.points[k], center, r_squared)}
    IN  IF hits = {} THEN hi - lo
        ELSE (CHOOSE k \in hits : \A j \in hits : k <= j) - lo + 1

\* [panicked, ret, leaf, scanned, reads, evaluated]: whether the call aborts,
\* what it returns otherwise, the leaf it lands in, the length of the slice
\* it may scan, the indices of tests it read and the number of distances it
\* evaluated
collides(t, center, r_squared) ==
    LET n2 == TestsLen(t) + 1
        test_idx == AffDescend(t.tests, center, 0, 0, ilog2(n2))
        i == test_idx - TestsLen(t)
        lo == t.aff_starts[i]
        hi == t.aff_starts[i + 1]
        Abort == [panicked |-> TRUE, ret |-> FALSE, leaf |-> 0 - 1, scanned |-> 0,
                  reads |-> <<>>, evaluated |-> 0]
    IN  IF ~RangeOk(t, r_squared) THEN Abort
        ELSE IF ~is_power_of_two(n2) THEN Abort
        ELSE IF test_idx < TestsLen(t) THEN Abort
        ELSE IF i \notin DOMAIN t.aff_starts \/ (i + 1) \notin DOMAIN t.aff_starts
             THEN Abort
        ELSE IF lo > hi \/ hi > Cardinality(DOMAIN t.points) THEN Abort
        ELSE [panicked |-> FALSE,
              ret |-> \E k \in lo..(hi - 1) : Hit(t.points[k], center, r_squared),
              leaf |-> i, scanned |-> hi - lo,
              reads |-> AffDescendReads(t.tests, center, 0, 0, ilog2(n2)),
              evaluated |-> Evaluated(t, center, r_squared, lo, hi)]

(***************************************************************************)
(* AffordanceTree::collides_simd: the descent and the set-up in one        *)
(* action, then one action per iteration of `while inbounds.any()`.        *)
(* Pointers are element offsets from the base of the array they point in.  *)
(***************************************************************************)
\* one round of "Advance the tests forward"; centers[d + 1] is the vector of
\* coordinate d of the L centers
AffAdvanceTests(tests, centers, test_idxs, i) ==
    LET relevant_tests == gather_ptr(tests, test_idxs)
        cmp_results == simd_lt(centers[(i % D) + 1], relevant_tests)
    IN  VAdd(VShl1(test_idxs), select(cmp_results, Splat(1), Splat(2)))

RECURSIVE AffDescendSimd(_, _, _, _, _)
AffDescendSimd(tests, centers, test_idxs, i, hi) ==
    IF i >= hi THEN test_idxs
    ELSE AffDescendSimd(tests, centers, AffAdvanceTests(tests, centers, test_idxs, i),
                        i + 1, hi)

\* the f32 at offset k of self.points seen as a flat slice of f32
FlatLen(t) == Cardinality(DOMAIN t.points) * D
Flat(t, k) == t.points[k \div D][(k % D) + 1]

\* Simd::gather_select_ptr(aff_ptrs, inbounds, or): an enabled lane reads
\* memory, a disabled lane takes its value from `or`
gather_select_ptr(t, aff_ptrs, enable, or) ==
    [l \in Lanes |-> IF enable[l] THEN Flat(t, aff_ptrs[l]) ELSE or[l]]

\* an enabled lane whose pointer is outside the buffer
OutOfBuffer(t, aff_ptrs, enable) ==
    \E l \in Lanes : enable[l] /\ aff_ptrs[l] \notin 0..(FlatLen(t) - 1)

MaskAny(mask) == \E l \in Lanes : mask[l]

\* the <<lane, offset>> pairs that gather_select_ptr(aff_ptrs, enable, _) reads
GatherReads(aff_ptrs, enable) == {<<l, aff_ptrs[l]>> : l \in {e \in Lanes : enable[e]}}

\* aff_ptrs.simd_lt(end_ptrs): the lanes that have points left in their slice
StillInbounds_le(aff_ptrs, end_ptrs) == simd_le(aff_ptrs, end_ptrs)
StillInbounds(aff_ptrs, end_ptrs) == simd_lt(aff_ptrs, end_ptrs)

\* the state at the head of the scan loop
SimdEntry(t, centers, radii_squared) ==
    LET n2 == TestsLen(t) + 1
        test_idxs == AffDescendSimd(t.tests, centers, Splat(0), 0, ilog2(n2))
        start_ptrs == VSub(test_idxs, Splat(TestsLen(t)))
        starts == [l \in Lanes |-> t.aff_starts[start_ptrs[l]] * D]
        ends == [l \in Lanes |-> t.aff_starts[start_ptrs[l] + 1] * D]
    IN  [fn |-> "collides_simd", centers |-> centers,
         radii_squared |-> radii_squared, pc |-> "loop",
         leaves |-> start_ptrs, aff_ptrs |-> starts, end_ptrs |-> ends,
         inbounds |-> Splat(TRUE), iters |-> 0, ret |-> FALSE, oob |-> FALSE,
         start_reads |-> UNION {{start_ptrs[l], start_ptrs[l] + 1} : l \in Lanes},
         reads |-> {}]

\* for center_set in centers { .. }: [dists_sq, aff_ptrs] after the first c
\* coordinates
RECURSIVE SimdAccumulate(_, _, _, _)
SimdAccumulate(t, c, centers, cl) ==
    IF cl = 0 THEN [dists_sq |-> Splat(0), aff_ptrs |-> c.aff_ptrs, oob |-> FALSE,
                    reads |-> {}]
    ELSE LET prev == SimdAccumulate(t, c, centers, cl - 1)
             center_set == centers[cl]
             vals == IF OutOfBuffer(t, prev.aff_ptrs, c.inbounds) THEN Splat(NaN)
                     ELSE gather_select_ptr(t, prev.aff_ptrs, c.inbounds, center_set)
             diffs == [l \in Lanes |-> FSub(center_set[l], vals[l])]
         IN  [dists_sq |-> [l \in Lanes |-> FAdd(prev.dists_sq[l], FSq(diffs[l]))],
              aff_ptrs |-> VAdd(prev.aff_ptrs, Splat(1)),
              oob |-> prev.oob \/ OutOfBuffer(t, prev.aff_ptrs, c.inbounds),
              reads |-> prev.reads \cup GatherReads(prev.aff_ptrs, c.inbounds)]

\* dists_sq.simd_lt(radii_squared).any()
SimdHit(dists_sq, radii_squared) == MaskAny(simd_lt(dists_sq, radii_squared))

\* the body of the scan loop, from the locals c
SimdBody(t, c) ==
    LET a == SimdAccumulate(t, c, c.centers, D)
        still == StillInbounds(a.aff_ptrs, c.end_ptrs)
    IN  IF SimdHit(a.dists_sq, c.radii_squared)
        THEN [c EXCEPT !.aff_ptrs = a.aff_ptrs, !.iters = @ + 1, !.oob = @ \/ a.oob,
                       !.reads = @ \cup a.reads,
                       !.ret = TRUE, !.pc = "done"]
        ELSE [c EXCEPT !.aff_ptrs = a.aff_ptrs, !.iters = @ + 1, !.oob = @ \/ a.oob,
                       !.reads = @ \cup a.reads,
                       !.inbounds = [l \in Lanes |-> c.inbounds[l] /\ still[l]]]

NoTree == [built |-> FALSE]
NoCall == [fn |-> "none"]

InitPkd ==
    /\ D \in Dims
    /\ input \in Inputs(D)
    /\ rsq_range = <<0, 0>>
    /\ kdt = NoTree
    /\ aft = NoTree
    /\ call = NoCall

New ==
    /\ ~kdt.built
    /\ kdt' \in PkdTreeNew(input)
    /\ UNCHANGED <<D, input, rsq_range, aft, call>>

\* The tree is immutable once built and every query is a function of the tree
\* and its arguments, so a behaviour makes one call on the tree it built.
Idle == kdt.built /\ call.fn = "none"

Query1 ==
    /\ Idle
    /\ \E needle \in Needles :
         call' = [fn |-> "query1", needle |-> needle, ret |-> query1(kdt, needle),
                  reads |-> DescendReads(kdt.tests, needle, 0, 0, ilog2(N2(kdt)))]
    /\ UNCHANGED <<D, input, rsq_range, kdt, aft>>

Query ==
    /\ Idle
    /\ \E needles \in NeedleBatches :
         call' = [fn |-> "query", needles |-> needles, ret |-> query(kdt, needles)]
    /\ UNCHANGED <<D, input, rsq_range, kdt, aft>>

Query1ExactCall ==
    /\ Idle
    /\ \E needle \in Needles : call' = ExactEntry(kdt, needle)
    /\ UNCHANGED <<D, input, rsq_range, kdt, aft>>

Query1ExactLoop ==
    /\ call.fn = "query1_exact" /\ call.pc = "loop"
    /\ call.test_idx # 0
    /\ call' = ExactBody(kdt, call)
    /\ UNCHANGED <<D, input, rsq_range, kdt, aft>>

Query1ExactReturn ==
    /\ call.fn = "query1_exact" /\ call.pc = "loop"
    /\ call.test_idx = 0
    /\ call' = [call EXCEPT !.pc = "done"]
    /\ UNCHANGED <<D, input, rsq_range, kdt, aft>>

\* the scalar calls
NextPkd ==
    \/ New
    \/ Query1
    \/ Query1ExactCall
    \/ Query1ExactLoop
    \/ Query1ExactReturn

SpecPkd == InitPkd /\ [][NextPkd]_vars

\* a before b in the lexicographic order of points
PointLt(a, b) ==
    \E c \in 1..D : a[c] < b[c] /\ \A e \in 1..(c - 1) : a[e] = b[e]

\* the runs of query1_exact to their end: the input is a set of distinct
\* points, listed in increasing order (PkdTree::new sorts it anyway)
InitExact ==
    /\ InitPkd
    /\ \A k \in 1..(Len(input) - 1) : PointLt(input[k], input[k + 1])

NextExact ==
    \/ New
    \/ Query1ExactCall
    \/ Query1ExactLoop
    \/ Query1ExactReturn

\* a call of query1_exact that has started keeps running: its next iteration
\* or its return is taken
SpecExactFair ==
    /\ InitExact
    /\ [][NextExact]_vars
    /\ WF_vars(Query1ExactLoop)
    /\ WF_vars(Query1ExactReturn)

\* the batched call beside the scalar one
NextPkdSimd ==
    \/ New
    \/ Query1
    \/ Query

SpecPkdSimd == InitPkd /\ [][NextPkdSimd]_vars

\* bail heights: every height of the tree and one above the root
BailHeights == 0..(ilog2(N2(kdt)) + 1)

\* coordinates of the needles of a bailing batch: on an input value, midway
\* between two input values, and beside the midpoint
BailCoords == {c \in NeedleCoords : c >= 0 /\ c % 4 # 1 /\ c < 4 * (NumCoords - 1)}
BailBatches == [1..D -> [Lanes -> BailCoords]]

QueryBail ==
    /\ Idle
    /\ \E needles \in BailBatches, bail_height \in BailHeights :
         call' = [fn |-> "query_bail", needles |-> needles,
                  bail_height |-> bail_height,
                  out |-> query_bail(kdt, needles, bail_height)]
    /\ UNCHANGED <<D, input, rsq_range, kdt, aft>>

\* the batched call that bails out of the descent
NextPkdBail ==
    \/ New
    \/ QueryBail

SpecPkdBail == InitPkd /\ [][NextPkdBail]_vars

(***************************************************************************)
(* The affordance tree: construction and one scalar call                   *)
(***************************************************************************)
\* the squared radii the ranges and the queries are drawn from
RsqValues == {0, 4}
RsqRanges == {r \in RsqValues \X RsqValues : r[1] <= r[2]}
\* the squared radii of queries: the ends of the ranges and a value inside
RsqQueries == RsqValues \cup {1}

InitAff ==
    /\ D \in Dims
    /\ input \in Inputs(D)
    /\ rsq_range \in RsqRanges
    /\ kdt = NoTree
    /\ aft = NoTree
    /\ call = NoCall

AffNew ==
    /\ ~aft.built
    /\ aft' \in AffordanceTreeNew(input, rsq_range)
    /\ UNCHANGED <<D, input, rsq_range, kdt, call>>

AffIdle == aft.built /\ call.fn = "none"

Collides ==
    /\ AffIdle
    /\ \E center \in Needles, r_squared \in RsqQueries :
         call' = [fn |-> "collides", center |-> center, r_squared |-> r_squared,
                  out |-> collides(aft, center, r_squared)]
    /\ UNCHANGED <<D, input, rsq_range, kdt, aft>>

NextAff ==
    \/ AffNew
    \/ Collides

SpecAff == InitAff /\ [][NextAff]_vars

(***************************************************************************)
(* The two constructors on the same input                                  *)
(***************************************************************************)
NextBuild ==
    \/ New
    \/ AffNew

SpecBuild == InitAff /\ [][NextBuild]_vars

(***************************************************************************)
(* The scalar descents of the two trees                                    *)
(***************************************************************************)
InitDescent ==
    /\ InitAff
    /\ rsq_range[1] < rsq_range[2]

\* a caller builds its trees before it queries one of them
NewFirst == call.fn = "none" /\ New
AffNewFirst == call.fn = "none" /\ AffNew

NextDescent ==
    \/ NewFirst
    \/ AffNewFirst
    \/ Query1
    \/ Collides

SpecDescent == InitDescent /\ [][NextDescent]_vars

(***************************************************************************)
(* The affordance tree: construction and one batched call                  *)
(***************************************************************************)
\* largest number of input points of a tree that is queried in batches
MaxNSimd == 3
\* coordinates of batched centers: the input coordinates and the midpoints
\* between them, where the split planes are
SimdCoords == {2 * k : k \in 0..(2 * (NumCoords - 1))}
CenterBatches == [1..D -> [Lanes -> SimdCoords]]
\* per-lane squared radii inside the declared range
RadiiBatches == [Lanes -> {r \in RsqValues : rsq_range[1] <= r /\ r <= rsq_range[2]}]

InitAffSimd ==
    /\ InitAff
    /\ Len(input) <= MaxNSimd

CollidesSimdCall ==
    /\ AffIdle
    /\ \E centers \in CenterBatches, radii_squared \in RadiiBatches :
         call' = SimdEntry(aft, centers, radii_squared)
    /\ UNCHANGED <<D, input, rsq_range, kdt, aft>>

CollidesSimdLoop ==
    /\ call.fn = "collides_simd" /\ call.pc = "loop"
    /\ MaskAny(call.inbounds)
    /\ call' = SimdBody(aft, call)
    /\ UNCHANGED <<D, input, rsq_range, kdt, aft>>

CollidesSimdReturn ==
    /\ call.fn = "collides_simd" /\ call.pc = "loop"
    /\ ~MaskAny(call.inbounds)
    /\ call' = [call EXCEPT !.pc = "done", !.ret = FALSE]
    /\ UNCHANGED <<D, input, rsq_range, kdt, aft>>

NextAffSimd ==
    \/ AffNew
    \/ CollidesSimdCall
    \/ CollidesSimdLoop
    \/ CollidesSimdReturn

SpecAffSimd == InitAffSimd /\ [][NextAffSimd]_vars

(***************************************************************************)
(* Claims on the PkdTree                                                   *)
(***************************************************************************)
LeafIdxs == 0..(N2(kdt) - 1)

ExactDone == call.fn = "query1_exact" /\ call.pc = "done" /\ ~call.panicked

\* C5 (as claimed): the leaf query1_exact returns is at minimal distance from
\* the needle among all leaves.
C5_Exactness ==
    ExactDone =>
        \A j \in LeafIdxs :
            ~FLt(dist(get_point(kdt, j), call.needle),
                 dist(get_point(kdt, call.guess), call.needle))

\* C6: every lane of query(needles) is query1 of that lane's needle.
C6_SimdEqualsScalar ==
    call.fn = "query" =>
        \A l \in Lanes : call.ret[l] = query1(kdt, LaneOf(call.needles, l))

\* a batch whose lanes end in different leaves, one of them with a coordinate
\* that equals the split value it is compared with at the root
C6_Witness ==
    /\ call.fn = "query"
    /\ N2(kdt) >= 4
    /\ \E l, m \in Lanes : call.ret[l] # call.ret[m]
    /\ \E l \in Lanes : call.needles[1][l] = kdt.tests[0]
    /\ \A l \in Lanes : call.ret[l] = query1(kdt, LaneOf(call.needles, l))

\* the number of positions of the sequence s that hold v
Count(s, v) == Cardinality({k \in DOMAIN s : s[k] = v})

StoredPoints == [j \in 1..N2(kdt) |-> get_point(kdt, j - 1)]
Sentinel == [c \in 1..D |-> PInf]

\* C8: the leaves read through get_point are the input points and
\* N2 - N sentinels, as multisets.
C8_PointSetPreserved ==
    (kdt.built /\ call.fn = "none") =>
        LET n2 == next_power_of_two(Len(input))
        IN  /\ N2(kdt) = n2
            /\ DOMAIN kdt.points = 0..(n2 * D - 1)
            /\ \A v \in PointsOf(Coords \cup {PInf, NaN}, D) :
                 Count(StoredPoints, v) =
                   Count(input, v) + (IF v = Sentinel THEN n2 - Len(input) ELSE 0)

\* a tree with padding, in two dimensions, whose leaves are not in input order
C8_Witness ==
    /\ kdt.built
    /\ D = 2
    /\ Len(input) = 3
    /\ get_point(kdt, 0) # input[1]
    /\ get_point(kdt, 3) = Sentinel
    /\ \A k \in 1..3 : Count(StoredPoints, input[k]) = Count(input, input[k])

\* C9: in one dimension leaf i holds the i-th smallest input, and query1 lands
\* on an input point nearest to the needle.
C9_OneDimensional ==
    D = 1 =>
        /\ (kdt.built /\ call.fn = "none") =>
             \A i \in 0..(Len(input) - 1) :
                LET v == get_point(kdt, i)[1]
                IN  /\ Cardinality({k \in DOMAIN input : input[k][1] < v}) <= i
                    /\ Cardinality({k \in DOMAIN input : input[k][1] <= v}) > i
        /\ call.fn = "query1" =>
             /\ call.ret \in 0..(Len(input) - 1)
             /\ \A k \in DOMAIN input :
                  dist(get_point(kdt, call.ret), call.needle) <= dist(input[k], call.needle)

\* three points and a sentinel: a needle on a midpoint lands on an inner leaf
C9_Witness ==
    /\ D = 1
    /\ Len(input) = 3
    /\ call.fn = "query1"
    /\ call.ret = 1
    /\ input[1][1] > input[2][1]
    /\ \E k \in 0..(N2(kdt) - 2) : call.needle[1] = kdt.tests[k]
    /\ get_point(kdt, 2)[1] > get_point(kdt, 1)[1]

\* C9 on a power of two: four points, none padded
C9_WitnessPow2 ==
    /\ D = 1
    /\ Len(input) = 4
    /\ call.fn = "query1"
    /\ call.ret = 3

Below(needle) == \A c \in 1..D : \A k \in DOMAIN input : needle[c] < input[k][c]
AtOrAbove(needle) == \A c \in 1..D : \A k \in DOMAIN input : needle[c] >= input[k][c]

\* C10: a needle below every input in every coordinate reaches leaf 0; with a
\* power-of-two input, a needle at or above every input reaches leaf N - 1.
C10_ExtremeNeedles ==
    LET n == Len(input)
        Ok(needle, ret) ==
            /\ Below(needle) => ret = 0
            /\ (is_power_of_two(n) /\ AtOrAbove(needle)) => ret = n - 1
    IN  /\ call.fn = "query1" => Ok(call.needle, call.ret)
        /\ call.fn = "query" =>
             \A l \in Lanes : Ok(LaneOf(call.needles, l), call.ret[l])

\* the batch of the test multi_query: one lane below, one lane at the top
C10_Witness ==
    /\ call.fn = "query"
    /\ D = 2
    /\ Len(input) = 4
    /\ Below(LaneOf(call.needles, 1)) /\ call.ret[1] = 0
    /\ AtOrAbove(LaneOf(call.needles, 2)) /\ call.ret[2] = 3
    /\ \E k \in DOMAIN input : LaneOf(call.needles, 2) = input[k]

(***************************************************************************)
(* Claims on the AffordanceTree                                            *)
(***************************************************************************)
CollidesDone == call.fn = "collides" /\ ~call.out.panicked

\* C1 (as claimed): an in-range query with an input point inside its ball
\* returns true.
C1_Soundness ==
    (CollidesDone /\ \E k \in DOMAIN input : FLe(distsq(input[k], call.center), call.r_squared))
        => call.out.ret

\* C2: a query that returns true has an input point inside its ball.
C2_NoFalsePositives ==
    (CollidesDone /\ call.out.ret)
        => \E k \in DOMAIN input : FLe(distsq(input[k], call.center), call.r_squared)

\* a hit on a point of the slice other than the cell's own point, in a tree
\* with a padding leaf
C2_Witness ==
    /\ CollidesDone /\ call.out.ret
    /\ Len(input) = 3 /\ D = 2
    /\ call.out.scanned >= 2
    /\ ~Hit(aft.points[aft.aff_starts[call.out.leaf]], call.center, call.r_squared)
    /\ \E k \in DOMAIN input : FLe(distsq(input[k], call.center), call.r_squared)

SimdDone == call.fn = "collides_simd" /\ call.pc = "done"
LaneCollides(l) == collides(aft, LaneOf(call.centers, l), call.radii_squared[l]).ret

\* C3 (as claimed): a batch that returns true has a lane whose scalar query
\* is true.
C3_SimdImpliesScalar ==
    (SimdDone /\ call.ret) => \E l \in Lanes : LaneCollides(l)

\* C4 (as claimed): a batch with a lane whose scalar query is true returns
\* true.
C4_ScalarImpliesSimd ==
    (SimdDone /\ \E l \in Lanes : LaneCollides(l)) => call.ret

\* C7: collides aborts exactly when r_squared is outside the range of the
\* tree.
C7_PanicIffOutOfRange ==
    call.fn = "collides" =>
        (call.out.panicked <=>
            (call.r_squared < aft.rsq_range[1] \/ call.r_squared > aft.rsq_range[2]))

\* an abort above the range, on a tree of three points in the plane
C7_Witness ==
    /\ call.fn = "collides"
    /\ Len(input) = 3 /\ D = 2
    /\ call.r_squared > aft.rsq_range[2]
    /\ call.out.panicked
(***************************************************************************)
(* Claims on query_bail                                                    *)
(***************************************************************************)
BailDone == call.fn = "query_bail" /\ ~call.out.panicked

\* the aligned block of 2^h leaves that holds leaf q
BailBlock(q, h) == {b \in LeafIdxs : b \div (2 ^ h) = q \div (2 ^ h)}

\* leaf j is the lowest leaf of the set S at minimal distance from the needle
LowestNearest(j, S, needle) ==
    /\ j \in S
    /\ \A b \in S :
         /\ dist(get_point(kdt, j), needle) <= dist(get_point(kdt, b), needle)
         /\ b < j => dist(get_point(kdt, j), needle) < dist(get_point(kdt, b), needle)

\* C11: query_bail(needles, h) aborts exactly when h is above log2 n2;
\* otherwise every lane gets the lowest nearest leaf of the block of 2^h
\* leaves around the leaf of query(needles), which is query(needles) itself
\* for h = 0 and the lowest nearest leaf of the whole tree for h = log2 n2.
C11_QueryBail ==
    call.fn = "query_bail" =>
        LET h == call.bail_height
            q == query(kdt, call.needles)
        IN  /\ call.out.panicked <=> h > ilog2(N2(kdt))
            /\ ~call.out.panicked =>
                 \A l \in Lanes :
                    LET needle == LaneOf(call.needles, l)
                        j == call.out.ret[l]
                    IN  /\ LowestNearest(j, BailBlock(q[l], h), needle)
                        /\ h = 0 => j = q[l]
                        /\ h = ilog2(N2(kdt)) => LowestNearest(j, LeafIdxs, needle)

\* a bail one level above the leaves of a four-leaf tree: one lane keeps the
\* leaf of the descent, the other moves to its sibling, and a lane has two
\* leaves of its block at the same distance
C11_Witness ==
    /\ BailDone
    /\ N2(kdt) = 4 /\ D = 2
    /\ call.bail_height = 1
    /\ \E l \in Lanes : call.out.ret[l] # query(kdt, call.needles)[l]
    /\ \E l \in Lanes : call.out.ret[l] = query(kdt, call.needles)[l]
    /\ \E l \in Lanes :
         \E b \in BailBlock(call.out.ret[l], 1) :
            /\ b # call.out.ret[l]
            /\ dist(get_point(kdt, b), LaneOf(call.needles, l)) =
                 dist(get_point(kdt, call.out.ret[l]), LaneOf(call.needles, l))
(***************************************************************************)
(* Claims on the layout of the trees                                       *)
(***************************************************************************)
\* C12: the sentinels are the leaves N .. n2 - 1 and no others, and query1 of
\* a finite needle returns a leaf below N, which holds an input point.
C12_PaddingNeverWins ==
    /\ kdt.built =>
         \A j \in LeafIdxs : (get_point(kdt, j) = Sentinel) <=> (j >= Len(input))
    /\ call.fn = "query1" =>
         /\ call.ret < Len(input)
         /\ \E k \in DOMAIN input : get_point(kdt, call.ret) = input[k]

\* three points and one sentinel in the plane, and a needle at or above every
\* input in every coordinate, which descends right at the root
C12_Witness ==
    /\ call.fn = "query1"
    /\ D = 2 /\ Len(input) = 3
    /\ AtOrAbove(call.needle)
    /\ ~FLt(call.needle[1], kdt.tests[0])
    /\ get_point(kdt, 3) = Sentinel
    /\ call.ret = 2
\* the leaves below node c of a tree of n2 leaves (c itself when c is a leaf)
LeavesUnder(c, n2) ==
    LET d == ilog2(c + 1)
        w == n2 \div (2 ^ d)
        p == c - ((2 ^ d) - 1)
    IN  (p * w)..(p * w + w - 1)

\* the axis of node i: its depth modulo D
AxisOf(i) == ilog2(i + 1) % D

\* leaf j of the affordance tree: position j of the partitioned point array
AffLeaf(j) == aft.new_points[j + 1]
KdtLeaf(j) == get_point(kdt, j)

\* every leaf below the left child of every node is strictly under the split
\* of the node on its axis, every leaf below the right child at or above it
SplitStrict(tests, Leaf(_), n2) ==
    \A i \in 0..(n2 - 2) :
        /\ \A j \in LeavesUnder(2 * i + 1, n2) : FLt(Leaf(j)[AxisOf(i) + 1], tests[i])
        /\ \A j \in LeavesUnder(2 * i + 2, n2) : FLe(tests[i], Leaf(j)[AxisOf(i) + 1])

\* the same with "at or under" on the left
SplitWeak(tests, Leaf(_), n2) ==
    \A i \in 0..(n2 - 2) :
        /\ \A j \in LeavesUnder(2 * i + 1, n2) : FLe(Leaf(j)[AxisOf(i) + 1], tests[i])
        /\ \A j \in LeavesUnder(2 * i + 2, n2) : FLe(tests[i], Leaf(j)[AxisOf(i) + 1])

\* C13 (as claimed): in both trees, the leaves of a left subtree are strictly
\* under the split on the node's axis and the leaves of a right subtree are
\* at or above it.
C13_SplitPlaneStrict ==
    /\ kdt.built => SplitStrict(kdt.tests, KdtLeaf, N2(kdt))
    /\ aft.built => SplitStrict(aft.tests, AffLeaf, TestsLen(aft) + 1)

\* C13 (amended): in both trees, the leaves of a left subtree are at or under
\* the split on the node's axis and the leaves of a right subtree are at or
\* above it.
C13_SplitPlane ==
    /\ kdt.built => SplitWeak(kdt.tests, KdtLeaf, N2(kdt))
    /\ aft.built => SplitWeak(aft.tests, AffLeaf, TestsLen(aft) + 1)

\* both trees built from four points of the plane with a repeated x: the
\* root split equals the x of a leaf on its left, and the split of the left
\* child is strictly between its two leaves
C13_Witness ==
    /\ kdt.built /\ aft.built
    /\ D = 2 /\ Len(input) = 4
    /\ kdt.tests[0] = KdtLeaf(1)[1]
    /\ aft.tests[0] = AffLeaf(1)[1]
    /\ KdtLeaf(0)[2] < kdt.tests[1] /\ kdt.tests[1] < KdtLeaf(1)[2]
    /\ AffLeaf(0)[2] < aft.tests[1] /\ aft.tests[1] < AffLeaf(1)[2]
\* the affordance slice of leaf l: the indices aff_starts[l] .. aff_starts[l + 1] - 1
SliceOf(l) == aft.aff_starts[l]..(aft.aff_starts[l + 1] - 1)
AffLeafIdxs == 0..TestsLen(aft)

\* C14: the first point of the slice of every leaf is the point left in that
\* leaf's position of the partitioned array, and so is the first point of
\* the slice that collides scans.
C14_CenterFirst ==
    /\ aft.built =>
         \A l \in AffLeafIdxs : aft.points[aft.aff_starts[l]] = AffLeaf(l)
    /\ CollidesDone =>
         aft.points[aft.aff_starts[call.out.leaf]] = AffLeaf(call.out.leaf)

\* a call that lands in a leaf other than the first whose slice holds its
\* own point and another one
C14_Witness ==
    /\ CollidesDone
    /\ D = 2 /\ Len(input) = 3
    /\ call.out.leaf >= 1
    /\ call.out.scanned >= 2
    /\ aft.points[aft.aff_starts[call.out.leaf]] = AffLeaf(call.out.leaf)
    /\ aft.points[aft.aff_starts[call.out.leaf] + 1] # AffLeaf(call.out.leaf)

\* C15: aff_starts has n2 + 1 entries, begins at 0, ends at the length of
\* the affordance buffer and increases strictly.
C15_StartsArray ==
    aft.built =>
        LET n2 == next_power_of_two(Len(input))
        IN  /\ TestsLen(aft) + 1 = n2
            /\ DOMAIN aft.aff_starts = 0..n2
            /\ aft.aff_starts[0] = 0
            /\ aft.aff_starts[n2] = Cardinality(DOMAIN aft.points)
            /\ \A i \in 0..(n2 - 1) : aft.aff_starts[i] < aft.aff_starts[i + 1]

\* three points of the plane: a slice of one point and a slice of several
C15_Witness ==
    /\ aft.built
    /\ D = 2 /\ Len(input) = 3
    /\ DOMAIN aft.aff_starts = 0..4
    /\ \E l \in AffLeafIdxs : Cardinality(SliceOf(l)) = 1
    /\ \E l \in AffLeafIdxs : Cardinality(SliceOf(l)) >= 2
    /\ aft.aff_starts[4] = Cardinality(DOMAIN aft.points)

\* C16: the sentinel is in a slice only as the first point of the slice of a
\* padding leaf, and the slice of a padding leaf holds that point alone.
C16_PaddingStaysHome ==
    aft.built =>
        /\ \A l \in AffLeafIdxs : \A k \in SliceOf(l) :
              aft.points[k] = Sentinel => (k = aft.aff_starts[l] /\ l >= Len(input))
        /\ \A l \in AffLeafIdxs :
              l >= Len(input) =>
                 /\ Cardinality(SliceOf(l)) = 1
                 /\ aft.points[aft.aff_starts[l]] = Sentinel

\* a tree with a padding leaf next to a leaf whose slice kept another input
\* point
C16_Witness ==
    /\ aft.built
    /\ D = 2 /\ Len(input) = 3
    /\ aft.rsq_range = <<0, 4>>
    /\ Cardinality(SliceOf(3)) = 1
    /\ aft.points[aft.aff_starts[3]] = Sentinel
    /\ Cardinality(SliceOf(2)) >= 2
\* C17: the descents of query1 and of collides make log2 n2 comparisons, each
\* on an entry of tests, and end on a leaf; collides then evaluates no more
\* distances than the slice of that leaf holds.
C17_FixedDescent ==
    /\ call.fn = "query1" =>
         /\ Len(call.reads) = ilog2(N2(kdt))
         /\ \A k \in DOMAIN call.reads : call.reads[k] \in 0..(N2(kdt) - 2)
         /\ call.ret \in 0..(N2(kdt) - 1)
    /\ CollidesDone =>
         LET n2 == TestsLen(aft) + 1
         IN  /\ Len(call.out.reads) = ilog2(n2)
             /\ \A k \in DOMAIN call.out.reads : call.out.reads[k] \in 0..(n2 - 2)
             /\ call.out.leaf \in 0..(n2 - 1)
             /\ call.out.evaluated <=
                  aft.aff_starts[call.out.leaf + 1] - aft.aff_starts[call.out.leaf]
    /\ (call.fn = "collides" /\ RangeOk(aft, call.r_squared)) => ~call.out.panicked

\* a call on the four-leaf tree of the plane that reads two entries of tests,
\* lands on the last finite leaf and stops the scan at a hit before the end
\* of the slice
C17_Witness ==
    /\ CollidesDone
    /\ kdt.built
    /\ D = 2 /\ Len(input) = 3
    /\ call.out.reads = <<0, 2>>
    /\ call.out.leaf = 2
    /\ call.out.evaluated < call.out.scanned
(***************************************************************************)
(* Claims on query1_exact                                                  *)
(***************************************************************************)
InExact == call.fn = "query1_exact"

\* the distance from the needle of the call to leaf j
ToNeedle(j) == dist(get_point(kdt, j), call.needle)

\* C18: throughout query1_exact the stored distance is the distance of the
\* current guess and is not above the distance of the leaf of query1, so
\* the leaf returned is not farther than the leaf of query1; and an
\* iteration either leaves guess and distance alone or lowers the distance
\* strictly.
C18_NeverWorse ==
    /\ [](InExact =>
            /\ call.distance = ToNeedle(call.guess)
            /\ FLe(call.distance, ToNeedle(query1(kdt, call.needle))))
    /\ [][(InExact /\ InExact') =>
            \/ (call'.distance = call.distance /\ call'.guess = call.guess)
            \/ FLt(call'.distance, call.distance)]_vars

\* a call that returns a leaf strictly nearer than the leaf of query1
C18_Witness ==
    /\ ExactDone
    /\ call.guess # query1(kdt, call.needle)
    /\ FLt(ToNeedle(call.guess), ToNeedle(query1(kdt, call.needle)))

\* the depth of node k
Depth(k) == ilog2(k + 1)

\* C19: every iteration either lowers the stored distance strictly or
\* keeps it and moves test_idx one level up, and every call of
\* query1_exact reaches test_idx = 0 and returns.
C19_Terminates ==
    /\ [][(InExact /\ call.pc = "loop" /\ call.test_idx # 0 /\ InExact') =>
            \/ FLt(call'.distance, call.distance)
            \/ (call'.distance = call.distance /\
                 Depth(call'.test_idx) = Depth(call.test_idx) - 1)]_vars
    /\ InExact ~> (InExact /\ call.pc = "done" /\ call.test_idx = 0)

\* a call on a four-leaf tree that returned after a re-descent had put
\* test_idx back on a leaf
C19_Witness ==
    /\ ExactDone
    /\ N2(kdt) = 4
    /\ call.test_idx = 0
    /\ call.i = 2
    /\ call.guess # query1(kdt, call.needle)

\* C20: no iteration of query1_exact fails an assertion or underflows, every
\* index of tests it reads is below n2 - 1, and its re-descent ends on a
\* leaf in 0..n2-1.
C20_NoPanic ==
    InExact =>
        /\ ~call.panicked
        /\ call.i <= ilog2(N2(kdt))
        /\ \A k \in DOMAIN call.reads : call.reads[k] \in 0..(N2(kdt) - 2)
        /\ call.new_guess \in 0..(N2(kdt) - 1)
        /\ call.guess \in 0..(N2(kdt) - 1)

\* an iteration at the root of a four-leaf tree that read the root and
\* re-descended through the other child to a leaf it did not take
C20_Witness ==
    /\ InExact /\ ~call.panicked
    /\ N2(kdt) = 4 /\ D = 2
    /\ Len(call.reads) = 2
    /\ call.reads[1] = 0
    /\ call.new_guess # call.guess
    /\ call.test_idx = 0
(***************************************************************************)
(* Claims on the reads of collides_simd                                    *)
(***************************************************************************)
InSimd == call.fn = "collides_simd"

\* the offsets of the slice of the leaf that lane l descended to, in the
\* point buffer seen as a flat slice of f32
LaneSlice(l) ==
    (aft.aff_starts[call.leaves[l]] * D)..(aft.aff_starts[call.leaves[l] + 1] * D - 1)
\* the number of points in that slice
LaneSliceLen(l) == aft.aff_starts[call.leaves[l] + 1] - aft.aff_starts[call.leaves[l]]

\* C21: in a batched call every gather from aff_starts is at an index in
\* 0..N2, every coordinate gathered for an active lane is inside the slice of
\* that lane's leaf (and so inside the point buffer), the number of
\* iterations of the scan loop never exceeds the longest slice among the
\* lanes, and every step of the call either ends it or is one more iteration.
C21_ReadsInsideAndTerminates ==
    /\ [](InSimd =>
            /\ \A k \in call.start_reads : k \in 0..(TestsLen(aft) + 1)
            /\ \A r \in call.reads : r[2] \in LaneSlice(r[1])
            /\ ~call.oob
            /\ \E l \in Lanes : call.iters <= LaneSliceLen(l))
    /\ [][(InSimd /\ call.pc = "loop")
            => (call'.pc = "done" \/ call'.iters = call.iters + 1)]_vars

\* a finished batch on a tree of three points in the plane that found
\* nothing: its lanes went to leaves with slices of different lengths, the
\* loop ran as many iterations as the longest slice has points, and every
\* coordinate of both slices was gathered
C21_Witness ==
    /\ SimdDone /\ ~call.ret
    /\ Len(input) = 3 /\ D = 2
    /\ LaneSliceLen(1) = 1 /\ LaneSliceLen(2) >= 2
    /\ call.iters = LaneSliceLen(2)
    /\ \A l \in Lanes : \A k \in LaneSlice(l) : <<l, k>> \in call.reads
====
